---- MODULE Spec2Model ----
(***************************************************************************)
(* WyseForex bot (src/bot.py): the per-chat digest job registry, the       *)
(* multi-pair batches (trends command, digest job) and the indicator       *)
(* analysis of one pair.                                                   *)
(*                                                                         *)
(* A command argument is a sequence of one-character strings, so that      *)
(* split(":") and int() are computed as Python computes them.              *)
(* The event loop is cooperative: an action is one segment of a coroutine  *)
(* between two awaits, and blocking calls (requests.get) run inside it.    *)
(***************************************************************************)
EXTENDS Integers, Sequences, FiniteSets, Bags

VARIABLES
    jobs,      \* job queue: the bag of scheduled jobs
    now,       \* index into ClockMinutes: the wall-clock minute
    runs,      \* the bag of digest_job coroutines in progress
    trends,    \* the trends_cmd coroutine in progress, or Idle
    update,    \* the last command handled and its reply
    lastOk,    \* per chat: the last command that succeeded (history)
    series,    \* analysis: the closes fetched for the pair
    result     \* analysis: outcome of analyze_pair on series

vars == <<jobs, now, runs, trends, update, lastOk, series, result>>

----------------------------------------------------------------------------
(* Text helpers: str.split, int(), "in", f"{n:02d}" *)

Digits == <<"0", "1", "2", "3", "4", "5", "6", "7", "8", "9">>

DigitChars == {Digits[i] : i \in 1..10}

DigitOf == [ch \in DigitChars |-> (CHOOSE i \in 1..10 : Digits[i] = ch) - 1]

IsDigit(ch) == ch \in DigitChars

DigitVal(ch) == DigitOf[ch]

Contains(s, ch) == \E i \in 1..Len(s) : s[i] = ch

\* number of leading characters of s before the first sep (Len(s) if none)
RECURSIVE PrefixLen(_, _)
PrefixLen(s, sep) ==
    IF s = <<>> \/ Head(s) = sep THEN 0 ELSE 1 + PrefixLen(Tail(s), sep)

\* str.split(sep): always at least one field, empty fields kept
RECURSIVE Split(_, _)
Split(s, sep) ==
    LET k == PrefixLen(s, sep)
    IN  IF k = Len(s)
        THEN <<s>>
        ELSE <<SubSeq(s, 1, k)>> \o Split(SubSeq(s, k + 2, Len(s)), sep)

\* digits and single underscores between digits, as int() accepts them
DigitsOk(b) ==
    /\ Len(b) >= 1
    /\ \A i \in 1..Len(b) : IsDigit(b[i]) \/ b[i] = "_"
    /\ IsDigit(b[1]) /\ IsDigit(b[Len(b)])
    /\ \A i \in 1..(Len(b) - 1) : ~(b[i] = "_" /\ b[i + 1] = "_")

RECURSIVE DigitsValue(_, _)
DigitsValue(b, acc) ==
    IF b = <<>> THEN acc
    ELSE IF Head(b) = "_" THEN DigitsValue(Tail(b), acc)
    ELSE DigitsValue(Tail(b), 10 * acc + DigitVal(Head(b)))

\* int(s) for a whitespace-free token: optional sign, then the digits;
\* ok = FALSE stands for ValueError
PyInt(s) ==
    LET signed == Len(s) >= 1 /\ s[1] \in {"+", "-"}
        body   == IF signed THEN Tail(s) ELSE s
    IN  IF ~DigitsOk(body)
        THEN [ok |-> FALSE, val |-> 0]
        ELSE [ok |-> TRUE,
              val |-> IF signed /\ s[1] = "-"
                      THEN 0 - DigitsValue(body, 0)
                      ELSE DigitsValue(body, 0)]

RECURSIVE Decimal(_)
\* the decimal digits of n >= 0
Decimal(n) ==
    IF n < 10 THEN <<Digits[n + 1]>>
    ELSE Append(Decimal(n \div 10), Digits[(n % 10) + 1])

\* f"{n:02d}": sign and digits, zero-padded to a width of two
Fmt02d(n) ==
    IF n < 0 THEN <<"-">> \o Decimal(0 - n)
    ELSE IF n < 10 THEN <<"0">> \o Decimal(n)
    ELSE Decimal(n)

----------------------------------------------------------------------------
(* Job queue *)

Chats == {1, 2}

\* one name for every chat
JobName_Shared(chat_id) == <<"digest_", 0>>

\* f"digest_{chat_id}"
JobName(chat_id) == <<"digest_", chat_id>>

\* a lookup under a name no job was given
GetJobsByName_None(q, name) == EmptyBag

\* job_queue.get_jobs_by_name(name)
GetJobsByName(q, name) ==
    [j \in {x \in BagToSet(q) : x.name = name} |-> CopiesIn(j, q)]

\* the earlier jobs are left in the queue
ScheduleRemovalAll_Keep(q, name) == q

\* for job in get_jobs_by_name(name): job.schedule_removal()
ScheduleRemovalAll(q, name) ==
    [j \in {x \in BagToSet(q) : x.name # name} |-> CopiesIn(j, q)]

\* job_queue.run_daily(digest_job, time=dtime(hh, mm), name=name, chat_id=chat_id)
RunDaily(q, name, chat_id, hh, mm) ==
    q (+) SetToBag({[name |-> name, chat_id |-> chat_id, hh |-> hh, mm |-> mm]})

\* the range assertion left out
ParseTime_NoAssert(arg) ==
    LET parts == Split(arg, ":")
        h == PyInt(parts[1])
        m == PyInt(parts[2])
    IN  IF Len(parts) # 2 THEN [ok |-> FALSE, hh |-> 0, mm |-> 0]
        ELSE IF ~h.ok \/ ~m.ok THEN [ok |-> FALSE, hh |-> 0, mm |-> 0]
        ELSE [ok |-> TRUE, hh |-> h.val, mm |-> m.val]

\* hh, mm = map(int, arg.split(":")); assert 0 <= hh < 24 and 0 <= mm < 60
\* ok = FALSE stands for any exception of the try block
ParseTime(arg) ==
    LET parts == Split(arg, ":")
        h == PyInt(parts[1])
        m == PyInt(parts[2])
    IN  IF Len(parts) # 2 THEN [ok |-> FALSE, hh |-> 0, mm |-> 0]
        ELSE IF ~h.ok \/ ~m.ok THEN [ok |-> FALSE, hh |-> 0, mm |-> 0]
        ELSE IF ~(0 <= h.val /\ h.val < 24 /\ 0 <= m.val /\ m.val < 60)
             THEN [ok |-> FALSE, hh |-> 0, mm |-> 0]
        ELSE [ok |-> TRUE, hh |-> h.val, mm |-> m.val]

Idle == [pc |-> "idle"]

\* /schedule_digest handled in chat with the argument list args
ScheduleDigestCmd(chat, args) ==
    /\ trends = Idle
    /\ IF Len(args) # 1 \/ ~Contains(args[1], ":")
       THEN /\ update' = [chat |-> chat, cmd |-> "schedule_digest", args |-> args,
                          reply |-> "usage", text |-> <<>>]
            /\ UNCHANGED <<jobs, lastOk>>
       ELSE LET t == ParseTime(args[1])
                name == JobName(chat)
            IN  IF ~t.ok
                THEN /\ update' = [chat |-> chat, cmd |-> "schedule_digest",
                                   args |-> args, reply |-> "invalid", text |-> <<>>]
                     /\ UNCHANGED <<jobs, lastOk>>
                ELSE /\ jobs' = RunDaily(ScheduleRemovalAll(jobs, name),
                                         name, chat, t.hh, t.mm)
                     /\ update' = [chat |-> chat, cmd |-> "schedule_digest",
                                   args |-> args, reply |-> "set",
                                   text |-> Fmt02d(t.hh) \o <<":">> \o Fmt02d(t.mm)]
                     /\ lastOk' = [lastOk EXCEPT ![chat] =
                                     [cmd |-> "schedule_digest", arg |-> args[1]]]
    /\ UNCHANGED <<now, runs, trends, series, result>>

\* /cancel_digest handled in chat
CancelDigestCmd(chat) ==
    /\ trends = Idle
    /\ LET name == JobName(chat)
           found == GetJobsByName(jobs, name)
       IN  IF found = EmptyBag
           THEN /\ update' = [chat |-> chat, cmd |-> "cancel_digest", args |-> <<>>,
                              reply |-> "nojob", text |-> <<>>]
                /\ UNCHANGED <<jobs, lastOk>>
           ELSE /\ jobs' = ScheduleRemovalAll(jobs, name)
                /\ update' = [chat |-> chat, cmd |-> "cancel_digest", args |-> <<>>,
                              reply |-> "canceled", text |-> <<>>]
                /\ lastOk' = [lastOk EXCEPT ![chat] =
                                [cmd |-> "cancel_digest", arg |-> <<>>]]
    /\ UNCHANGED <<now, runs, trends, series, result>>

----------------------------------------------------------------------------
(* Multi-pair batches *)

MAJOR_PAIRS == <<"EUR/USD", "GBP/USD", "USD/JPY", "USD/CHF", "AUD/USD", "USD/CAD", "NZD/USD">>

\* MAJOR_PAIRS[:4]
DigestPairs == SubSeq(MAJOR_PAIRS, 1, 4)

\* asyncio.sleep(12)
PacingDelay == 12

\* errs[:5]
ErrsShown == 5

Outcomes == {"ok", "fail"}

Min(a, b) == IF a < b THEN a ELSE b

\* the loop left at the first failure
TrendsLoop_Abort(t, oc) ==
    IF t.idx = Len(MAJOR_PAIRS) THEN [t EXCEPT !.pc = "end"]
    ELSE LET k == t.idx + 1
             call == [pair |-> MAJOR_PAIRS[k], at |-> t.slept]
         IN  IF oc[k] = "ok"
             THEN [t EXCEPT !.idx = k, !.calls = Append(@, call),
                            !.out = Append(@, MAJOR_PAIRS[k]),
                            !.slept = @ + PacingDelay, !.pc = "sleep"]
             ELSE [t EXCEPT !.idx = k, !.calls = Append(@, call),
                            !.errs = Append(@, MAJOR_PAIRS[k]), !.pc = "end"]

\* One segment of the for loop of trends_cmd, from pair t.idx + 1 up to the
\* next await.  oc[k] is what analyze_pair does for pair k.  slept is the time
\* the coroutine has spent in asyncio.sleep; a call is stamped with it.
RECURSIVE TrendsLoop(_, _)
TrendsLoop(t, oc) ==
    IF t.idx = Len(MAJOR_PAIRS) THEN [t EXCEPT !.pc = "end"]
    ELSE LET k == t.idx + 1
             call == [pair |-> MAJOR_PAIRS[k], at |-> t.slept]
         IN  IF oc[k] = "ok"
             THEN [t EXCEPT !.idx = k, !.calls = Append(@, call),
                            !.out = Append(@, MAJOR_PAIRS[k]),
                            !.slept = @ + PacingDelay, !.pc = "sleep"]
             ELSE TrendsLoop([t EXCEPT !.idx = k, !.calls = Append(@, call),
                                       !.errs = Append(@, MAJOR_PAIRS[k])], oc)

\* every failure listed
ErrsMessage_All(t) == [to |-> t.chat, kind |-> "failed", body |-> t.errs]

\* "Some pairs failed:\n" + "\n".join(errs[:5])
ErrsMessage(t) ==
    [to |-> t.chat, kind |-> "failed",
     body |-> SubSeq(t.errs, 1, Min(ErrsShown, Len(t.errs)))]

\* the two replies after the loop of trends_cmd, up to the next await
TrendsReplies(t) ==
    IF t.out # <<>>
    THEN [t EXCEPT !.pc = "replyOut",
                   !.msgs = Append(@, [to |-> t.chat, kind |-> "summary", body |-> t.out])]
    ELSE IF t.errs # <<>>
    THEN [t EXCEPT !.pc = "replyErrs", !.msgs = Append(@, ErrsMessage(t))]
    ELSE Idle

\* /trends handled in chat: the handler runs up to its first await;
\* oc[k] is what analyze_pair does for pair k if this segment calls it
TrendsCmd(chat, oc) ==
    /\ trends = Idle
    /\  LET t0 == [pc |-> "start", chat |-> chat, idx |-> 0, out |-> <<>>,
                    errs |-> <<>>, calls |-> <<>>, slept |-> 0, msgs |-> <<>>]
             t1 == TrendsLoop(t0, oc)
         IN  trends' = IF t1.pc = "end" THEN TrendsReplies(t1) ELSE t1
    /\ update' = [chat |-> chat, cmd |-> "trends", args |-> <<>>,
                  reply |-> "none", text |-> <<>>]
    /\ UNCHANGED <<jobs, now, runs, lastOk, series, result>>

\* trends_cmd resumed after an await
TrendsResume(oc) ==
    /\ trends # Idle
    /\ \/ /\ trends.pc = "sleep"
          /\   LET t1 == TrendsLoop(trends, oc)
               IN  trends' = IF t1.pc = "end" THEN TrendsReplies(t1) ELSE t1
       \/ /\ trends.pc = "replyOut"
          /\ trends' = IF trends.errs # <<>>
                       THEN [trends EXCEPT !.pc = "replyErrs",
                                           !.msgs = Append(@, ErrsMessage(trends))]
                       ELSE Idle
       \/ /\ trends.pc = "replyErrs"
          /\ trends' = Idle
    /\ UNCHANGED <<jobs, now, runs, update, lastOk, series, result>>

\* One segment of the for loop of digest_job; a failure is only logged.
RECURSIVE DigestLoop(_, _)
DigestLoop(r, oc) ==
    IF r.idx = Len(DigestPairs) THEN [r EXCEPT !.pc = "end"]
    ELSE LET k == r.idx + 1
             call == [pair |-> DigestPairs[k], at |-> r.slept]
         IN  IF oc[k] = "ok"
             THEN [r EXCEPT !.idx = k, !.calls = Append(@, call),
                            !.out = Append(@, DigestPairs[k]),
                            !.slept = @ + PacingDelay, !.pc = "sleep"]
             ELSE DigestLoop([r EXCEPT !.idx = k, !.calls = Append(@, call),
                                       !.logged = Append(@, DigestPairs[k])], oc)

\* trends_text = format_trend_summary(out) if out else "No trend data."; send it
DigestTrendsText(r) ==
    [r EXCEPT !.pc = "sendTrends",
              !.msgs = Append(@, [to |-> r.chat_id,
                                  kind |-> IF r.out # <<>> THEN "summary" ELSE "nodata",
                                  body |-> r.out])]

\* digest_job from its start to the first await; news is what get_forex_news does
DigestStart(job, news) ==
    LET r0 == [name |-> job.name, chat_id |-> job.chat_id, pc |-> "start", idx |-> 0,
               out |-> <<>>, logged |-> <<>>, calls |-> <<>>, slept |-> 0,
               msgs |-> <<>>, age |-> 0]
    IN  IF news = "ok"
        THEN [r0 EXCEPT !.pc = "sendNews",
                        !.msgs = <<[to |-> job.chat_id, kind |-> "news", body |-> <<>>]>>]
        ELSE [r0 EXCEPT !.pc = "sendFail",
                        !.msgs = <<[to |-> job.chat_id, kind |-> "digestfailed", body |-> <<>>]>>]

\* the digest_job coroutine r resumed after an await
DigestResume(r, oc) ==
    /\ BagIn(r, runs)
    /\ \/ /\ r.pc \in {"sendNews", "sleep"}
          /\ LET r1 == DigestLoop(r, oc)
                 r2 == IF r1.pc = "end" THEN DigestTrendsText(r1) ELSE r1
             IN  runs' = (runs (-) SetToBag({r})) (+) SetToBag({r2})
       \/ /\ r.pc \in {"sendTrends", "sendFail"}
          /\ runs' = runs (-) SetToBag({r})
    /\ UNCHANGED <<jobs, now, trends, update, lastOk, series, result>>

----------------------------------------------------------------------------
(* Clock and job firing *)

\* the minutes of the day the clock visits, in order, then the next day
ClockMinutes == << <<8, 30>>, <<8, 31>> >>

MinutesPerDay == 24 * 60

\* a digest run ends within this many minutes of its start
MaxRunMinutes == 2

\* digest runs in progress at one time
MaxRuns == 2

NextSlot(i) == IF i = Len(ClockMinutes) THEN 1 ELSE i + 1

MinuteOfDay(t) == 60 * t[1] + t[2]

\* minutes from clock slot i to the slot after it
SlotGap(i) ==
    (MinuteOfDay(ClockMinutes[NextSlot(i)]) - MinuteOfDay(ClockMinutes[i])
       + MinutesPerDay) % MinutesPerDay

\* the jobs of the queue whose time of day is t
DueJobs(q, t) == {j \in BagToSet(q) : <<j.hh, j.mm>> = t}

\* The clock reaches the next minute; the scheduler starts digest_job for
\* every job of the queue due at that minute.
Tick ==
    LET due == DueJobs(jobs, ClockMinutes[NextSlot(now)])
        gap == SlotGap(now)
        dueCount == BagCardinality([j \in due |-> CopiesIn(j, jobs)])
        Aged(r) == [r EXCEPT !.age = @ + gap]
    IN  /\ \A r \in BagToSet(runs) : r.age + gap <= MaxRunMinutes
        /\ BagCardinality(runs) + dueCount <= MaxRuns
        /\ now' = NextSlot(now)
        /\ \E news \in [due -> Outcomes] :
             LET aged == [a \in {Aged(r) : r \in BagToSet(runs)} |->
                            CopiesIn(CHOOSE r \in BagToSet(runs) : Aged(r) = a, runs)]
                 started == [n \in {DigestStart(j, news[j]) : j \in due} |->
                               CopiesIn(CHOOSE j \in due : DigestStart(j, news[j]) = n, jobs)]
             IN  runs' = aged (+) started
        /\ UNCHANGED <<jobs, trends, update, lastOk, series, result>>

----------------------------------------------------------------------------
(* Indicator analysis of one pair (analyze_pair).  Closes are positive      *)
(* integers; a mean is kept as the pair <<sum, window>> and two means are   *)
(* compared exactly.  RSI14 and MOM5 enter only by where they are defined.  *)

SMA_SHORT == 50

SMA_LONG == 200

RSI_PERIOD == 14

MOM_PERIOD == 5

RECURSIVE SumRange(_, _, _)
SumRange(c, lo, hi) ==
    IF lo > hi THEN 0
    ELSE IF lo = hi THEN c[lo]
    ELSE LET mid == (lo + hi) \div 2
         IN  SumRange(c, lo, mid) + SumRange(c, mid + 1, hi)

\* close.rolling(w).mean() at row i (rows from 1): NaN until w rows exist
RollingDefined(w, i) == i >= w

RollingMean(c, w, i) == <<SumRange(c, i - w + 1, i), w>>

\* rsi(close, 14) at row i: the first diff is NaN, ewm needs 14 observations
RsiDefined(i) == i >= RSI_PERIOD + 1

\* close.pct_change(5) at row i
MomDefined(i) == i >= MOM_PERIOD + 1

\* df.dropna(): the rows of 1..n where every column is defined, in order
DropNa(n) ==
    LET kept == {i \in 1..n : /\ RollingDefined(SMA_SHORT, i)
                              /\ RollingDefined(SMA_LONG, i)
                              /\ RsiDefined(i) /\ MomDefined(i)}
    IN  [k \in 1..Cardinality(kept) |->
           CHOOSE i \in kept : Cardinality({j \in kept : j <= i}) = k]

Gt(a, b) == a[1] * b[2] > b[1] * a[2]

Lt(a, b) == a[1] * b[2] < b[1] * a[2]

Le(a, b) == ~Gt(a, b)

Ge(a, b) == ~Lt(a, b)

\* the bar before must be strictly below
GoldenCross_Strict(latest, prev) ==
    Gt(latest.SMA50, latest.SMA200) /\ Lt(prev.SMA50, prev.SMA200)

\* lines 73-74: the signals of the rows latest and prev
GoldenCross(latest, prev) == Gt(latest.SMA50, latest.SMA200) /\ Le(prev.SMA50, prev.SMA200)

DeathCross(latest, prev) == Lt(latest.SMA50, latest.SMA200) /\ Ge(prev.SMA50, prev.SMA200)

Signals(latest, prev) ==
    (IF GoldenCross(latest, prev) THEN {"Golden cross (bullish)"} ELSE {})
    \cup (IF DeathCross(latest, prev) THEN {"Death cross (bearish)"} ELSE {})

Tilt(latest) ==
    IF Gt(latest.SMA50, latest.SMA200) THEN "Bullish tilt"
    ELSE IF Lt(latest.SMA50, latest.SMA200) THEN "Bearish tilt"
    ELSE "Sideways"

Row(c, i) == [SMA50 |-> RollingMean(c, SMA_SHORT, i), SMA200 |-> RollingMean(c, SMA_LONG, i)]

\* fetch_fx_daily: what the provider's answer becomes
FetchFxDaily(resp) ==
    IF resp.kind = "http" THEN [kind |-> "HTTPError"]
    ELSE IF resp.kind \in {"Note", "Error Message"} THEN [kind |-> "RuntimeError"]
    ELSE IF resp.closes = <<>> THEN [kind |-> "RuntimeError"]
    ELSE [kind |-> "frame", closes |-> resp.closes]

\* analyze_pair on the provider's answer
AnalyzePairOf(resp) ==
    LET df == FetchFxDaily(resp)
    IN  IF df.kind # "frame" THEN [kind |-> df.kind]
        ELSE LET c == df.closes
                 rows == DropNa(Len(c))
             IN  IF Len(rows) < 1 \/ Len(rows) < 2
                 THEN [kind |-> "IndexError"]
                 ELSE LET latest == Row(c, rows[Len(rows)])
                          prev   == Row(c, rows[Len(rows) - 1])
                      IN  [kind |-> "ok", asof |-> rows[Len(rows)],
                           signals |-> Signals(latest, prev), tilt |-> Tilt(latest)]

\* series lengths and prices tried
SeriesLens == {1, 2, 3, 15, 50, 198, 199, 200, 201, 202, 203}

BasePrice == 10

MaxDelta == 2

TailLen == 3

TailPrices == (BasePrice - MaxDelta)..(BasePrice + MaxDelta)

\* a series of n closes: BasePrice, then the closes of tail on the last bars
MakeSeries(n, tail) ==
    [i \in 1..n |-> IF i > n - TailLen THEN tail[i - (n - TailLen)] ELSE BasePrice]

Responses ==
    {[kind |-> "http"], [kind |-> "Note"], [kind |-> "Error Message"],
     [kind |-> "series", closes |-> <<>>]}
    \cup {[kind |-> "series", closes |-> MakeSeries(n, tail)] :
            n \in SeriesLens, tail \in [1..TailLen -> TailPrices]}

None == [kind |-> "none"]

\* analyze_pair called with the provider answering series
AnalyzePair ==
    /\ result = None
    /\ result' = AnalyzePairOf(series)
    /\ UNCHANGED <<jobs, now, runs, trends, update, lastOk, series>>

----------------------------------------------------------------------------
(* Specifications *)

NoCmd == [cmd |-> "none", arg |-> <<>>]

InitBot ==
    /\ jobs = EmptyBag
    /\ now = 1
    /\ runs = EmptyBag
    /\ trends = Idle
    /\ update = [chat |-> 0, cmd |-> "none", args |-> <<>>, reply |-> "none", text |-> <<>>]
    /\ lastOk = [c \in Chats |-> NoCmd]

Init ==
    /\ InitBot
    /\ series = None
    /\ result = None

\* the provider's answer is drawn, analyze_pair has not run
InitAnalyze ==
    /\ InitBot
    /\ series \in Responses
    /\ result = None

T0830 == <<"0", "8", ":", "3", "0">>

T0831 == <<"0", "8", ":", "3", "1">>

T0900 == <<"0", "9", ":", "0", "0">>

\* two adjacent minutes, well formed
CoreArgs == {<<T0830>>, <<T0831>>}

\* every shape of argument list
AllArgs ==
    CoreArgs \cup
    {<<>>, <<<<"2", "5", ":", "6", "1">>>>, <<T0830, T0831>>, <<T0900>>,
     <<<<"0", "8", "3", "0">>>>,
     <<<<"8", ":", "3", "0">>>>,
     <<<<"0", "8", ":", "3", "0", ":", "0", "0">>>>,
     <<<<"a", "b", ":", "c", "d">>>>,
     <<<<"-", "1", ":", "3", "0">>>>,
     <<<<"-", "0", ":", "3", "1">>>>,
     <<<<"+", "8", ":", "3", "1">>>>,
     <<<<"0", "_", "8", ":", "3", "0">>>>,
     <<<<"0", "0", "9", ":", "0", "0">>>>,
     <<<<"2", "4", ":", "0", "0">>>>,
     <<<<"2", "3", ":", "6", "0">>>>,
     <<<<"2", "3", ":", "5", "9">>>>,
     <<<<"0", "0", ":", "0", "0">>>>,
     <<<<":", "3", "0">>>>,
     <<<<"0", "8", ":">>>>,
     <<<<"0", "8", ":", "_", "3">>>>}

\* What analyze_pair does in a batch segment that starts after pair idx:
\* the next f pairs fail and the pair after them, if any, succeeds.
SegmentOutcomes(idx, fails) ==
    {[k \in 1..Len(MAJOR_PAIRS) |-> IF idx < k /\ k <= idx + f THEN "fail" ELSE "ok"] :
        f \in fails}

\* no pair fails, or every pair does
CoreFails == {0, Len(MAJOR_PAIRS)}

\* any number of pairs fail
AllFails == 0..Len(MAJOR_PAIRS)

\* the scheduler: commands of every chat, the clock, the digest runs
Next ==
    \/ \E chat \in Chats, args \in CoreArgs : ScheduleDigestCmd(chat, args)
    \/ \E chat \in Chats : CancelDigestCmd(chat)
    \/ Tick
    \/ \E r \in BagToSet(runs) : \E oc \in SegmentOutcomes(r.idx, CoreFails) : DigestResume(r, oc)

Spec == Init /\ [][Next]_vars

\* the two commands alone, on every shape of argument
NextCmd ==
    \/ \E chat \in Chats, args \in AllArgs : ScheduleDigestCmd(chat, args)
    \/ \E chat \in Chats : CancelDigestCmd(chat)

SpecCmd == Init /\ [][NextCmd]_vars

\* the batches of one chat: /trends, and the digest of a job set for 08:30
NextBatch ==
    \/ \E oc \in SegmentOutcomes(0, AllFails) : TrendsCmd(1, oc)
    \/ trends # Idle /\ \E oc \in SegmentOutcomes(trends.idx, AllFails) : TrendsResume(oc)
    \/ ScheduleDigestCmd(1, <<T0830>>)
    \/ Tick
    \/ \E r \in BagToSet(runs) : \E oc \in SegmentOutcomes(r.idx, AllFails) : DigestResume(r, oc)

SpecBatch == Init /\ [][NextBatch]_vars

NextAnalyze == AnalyzePair

SpecAnalyze == InitAnalyze /\ [][NextAnalyze]_vars

----------------------------------------------------------------------------
(* Properties.  The helpers below read the state by chat_id and by          *)
(* position in the text, not through the operators of the model.            *)

\* the jobs of the queue q bound to chat c, with their multiplicity
Owned(q, c) == [j \in {x \in BagToSet(q) : x.chat_id = c} |-> CopiesIn(j, q)]

OwnedCount(q, c) == BagCardinality(Owned(q, c))

\* two digits, a colon, two digits
IsHHMM(tok) ==
    /\ Len(tok) = 5
    /\ tok[3] = ":"
    /\ \A i \in {1, 2, 4, 5} : IsDigit(tok[i])

HourOf(tok) == 10 * DigitVal(tok[1]) + DigitVal(tok[2])

MinuteOf(tok) == 10 * DigitVal(tok[4]) + DigitVal(tok[5])

\* a digest_job coroutine bound to chat c starts in this step
Started(c) ==
    \E r \in BagToSet(runs') :
        /\ r.chat_id = c
        /\ r.pc \in {"sendNews", "sendFail"} /\ r.age = 0
        /\ CopiesIn(r, runs') > CopiesIn(r, runs)

RunsOf(c) == BagCardinality([r \in {x \in BagToSet(runs) : x.chat_id = c} |-> CopiesIn(r, runs)])

C1State ==
    \A c \in Chats :
        /\ OwnedCount(jobs, c) <= 1
        /\ lastOk[c].cmd = "schedule_digest" =>
             /\ OwnedCount(jobs, c) = 1
             /\ IsHHMM(lastOk[c].arg) =>
                  \A j \in BagToSet(Owned(jobs, c)) :
                      /\ j.hh = HourOf(lastOk[c].arg)
                      /\ j.mm = MinuteOf(lastOk[c].arg)

\* C1: after any sequence of schedule_digest and cancel_digest commands every
\* chat has at most one job; if the chat's last successful command was
\* schedule_digest HH:MM it has exactly one, set for HH:MM, and a digest of
\* the chat starts only when the clock reaches that HH:MM.
C1_OneJobAtLastTime ==
    [][/\ C1State'
       /\ \A c \in Chats :
            Started(c) =>
              /\ lastOk[c].cmd = "schedule_digest"
              /\ IsHHMM(lastOk[c].arg) =>
                   ClockMinutes[now'] = <<HourOf(lastOk[c].arg), MinuteOf(lastOk[c].arg)>>]_vars

\* a digest of chat 1 started this minute, 08:30, from the job then set; since
\* then the chat was rescheduled to 08:31 and holds that job alone
C1_Witness ==
    /\ ClockMinutes[now] = <<8, 30>>
    /\ \E r \in BagToSet(runs) : r.chat_id = 1 /\ r.pc = "sendNews" /\ r.age = 0
    /\ lastOk[1] = [cmd |-> "schedule_digest", arg |-> T0831]
    /\ Owned(jobs, 1) = SetToBag({[name |-> JobName(1), chat_id |-> 1, hh |-> 8, mm |-> 31]})

IsCancel(u) == u.cmd = "cancel_digest"

\* C2: cancel_digest in a chat without a job replies "No digest job set." and
\* leaves the queue as it was; in a chat with a job it removes every job of
\* the chat; and while the chat's last successful command is not a
\* schedule_digest the chat has no job and no tick starts a digest for it.
C2_CancelStopsDigest ==
    [][/\ (IsCancel(update') /\ update'.reply = "nojob") => jobs' = jobs
       /\ (IsCancel(update') /\ update' # update) =>
            IF OwnedCount(jobs, update'.chat) = 0
            THEN update'.reply = "nojob"
            ELSE update'.reply = "canceled" /\ OwnedCount(jobs', update'.chat) = 0
       /\ \A c \in Chats :
            lastOk'[c].cmd # "schedule_digest" =>
              /\ OwnedCount(jobs', c) = 0
              /\ ~Started(c)]_vars

\* the last command cancelled the job of chat 1, which has none left; its
\* digest started at 08:30 is still in flight at 08:31; chat 2 keeps its job
C2_Witness ==
    /\ update.chat = 1 /\ IsCancel(update) /\ update.reply = "canceled"
    /\ lastOk[1].cmd = "cancel_digest"
    /\ OwnedCount(jobs, 1) = 0
    /\ OwnedCount(jobs, 2) = 1
    /\ ClockMinutes[now] = <<8, 31>>
    /\ \E r \in BagToSet(runs) : r.chat_id = 1 /\ r.age = 1

\* the fields of a token with a single colon, by the colon's position
ColonAt(tok) == CHOOSE i \in 1..Len(tok) : tok[i] = ":"

ColonCount(tok) == Cardinality({i \in 1..Len(tok) : tok[i] = ":"})

\* an optional sign, then decimal digits, single underscores between digits
IsIntText(f) ==
    LET from == IF Len(f) >= 1 /\ f[1] \in {"+", "-"} THEN 2 ELSE 1
    IN  /\ Len(f) >= from
        /\ IsDigit(f[from]) /\ IsDigit(f[Len(f)])
        /\ \A i \in from..Len(f) :
             \/ IsDigit(f[i])
             \/ f[i] = "_" /\ IsDigit(f[i - 1]) /\ IsDigit(f[i + 1])

\* the value of an integer text: each digit weighs ten to the number of
\* digits after it
IntTextValue(f) ==
    LET pos == {i \in 1..Len(f) : IsDigit(f[i])}
        RECURSIVE Pow10(_)
        Pow10(n) == IF n = 0 THEN 1 ELSE 10 * Pow10(n - 1)
        RECURSIVE Total(_)
        Total(ps) ==
            IF ps = {} THEN 0
            ELSE LET i == CHOOSE x \in ps : TRUE
                 IN  DigitVal(f[i]) * Pow10(Cardinality({k \in pos : k > i}))
                     + Total(ps \ {i})
    IN  IF f[1] = "-" THEN 0 - Total(pos) ELSE Total(pos)

IsRejection(u) == u.cmd = "schedule_digest" /\ u.reply \in {"usage", "invalid"}

\* the argument list is missing or not a single HH:MM, or names an hour
\* outside 0..23 or a minute outside 0..59
NotHHMMInRange(args) ==
    \/ Len(args) # 1
    \/ ~IsHHMM(args[1])
    \/ ~(HourOf(args[1]) \in 0..23 /\ MinuteOf(args[1]) \in 0..59)

\* C3 as stated: every schedule_digest whose argument is missing, not of the
\* form HH:MM or out of range is rejected and leaves the queue as it was.
C3_Original ==
    [][(update'.cmd = "schedule_digest" /\ update' # update
          /\ NotHHMMInRange(update'.args))
         => IsRejection(update') /\ jobs' = jobs]_vars

\* the argument list is missing or longer than one, or its token is not two
\* integer texts around one colon, or a value is out of range
NotTwoIntsInRange(args) ==
    \/ Len(args) # 1
    \/ ColonCount(args[1]) # 1
    \/ LET tok == args[1]
           hh  == SubSeq(tok, 1, ColonAt(tok) - 1)
           mm  == SubSeq(tok, ColonAt(tok) + 1, Len(tok))
       IN  \/ ~IsIntText(hh) \/ ~IsIntText(mm)
           \/ ~(IntTextValue(hh) \in 0..23 /\ IntTextValue(mm) \in 0..59)

\* C3 amended: a schedule_digest is rejected exactly when its argument is
\* missing, is not two integer texts separated by one colon, or has the hour
\* outside 0..23 or the minute outside 0..59; a rejected command leaves the
\* queue as it was, an existing job of the chat included.
C3_RejectedLeavesQueue ==
    [][(update'.cmd = "schedule_digest" /\ update' # update) =>
         /\ IsRejection(update') <=> NotTwoIntsInRange(update'.args)
         /\ IsRejection(update') => jobs' = jobs /\ lastOk' = lastOk]_vars

\* "25:61" was rejected in chat 1, whose job of 08:30 is still the only one
C3_Witness ==
    /\ update.chat = 1 /\ update.reply = "invalid"
    /\ update.args = <<<<"2", "5", ":", "6", "1">>>>
    /\ lastOk[1] = [cmd |-> "schedule_digest", arg |-> T0830]
    /\ Owned(jobs, 1) = SetToBag({[name |-> JobName(1), chat_id |-> 1, hh |-> 8, mm |-> 30]})

InSeq(x, sq) == \E i \in 1..Len(sq) : sq[i] = x

Last(sq) == sq[Len(sq)]

\* the pairs of list called so far, in order, and the next one not held back
\* by a failure: succ and failed are the successes and the failures recorded
Attempted(calls, succ, failed, list) ==
    /\ Len(calls) <= Len(list)
    /\ \A k \in 1..Len(calls) : calls[k].pair = list[k]
    /\ Len(succ) + Len(failed) = Len(calls)
    /\ \A k \in 1..Len(calls) : InSeq(list[k], succ) # InSeq(list[k], failed)
    /\ \A k \in 1..(Len(list) - 1) : InSeq(list[k], failed) => Len(calls) >= k + 1

\* C4: a batch calls every pair of its list in order whatever failed before:
\* when the loop has ended the successes and the failures add up to the 7
\* pairs of trends and the 4 of the digest, and a failed pair is always
\* followed by the call of the next one.
C4_EveryPairAttempted ==
    /\ trends # Idle =>
         /\ Attempted(trends.calls, trends.out, trends.errs, MAJOR_PAIRS)
         /\ trends.pc \in {"replyOut", "replyErrs"} => Len(trends.calls) = 7
    /\ \A r \in BagToSet(runs) :
         /\ Attempted(r.calls, r.out, r.logged, SubSeq(MAJOR_PAIRS, 1, 4))
         /\ r.pc = "sendTrends" => Len(r.calls) = 4

\* GBP/USD failed in both batches and the pairs after it were fetched
C4_Witness ==
    /\ trends # Idle /\ trends.pc = "replyOut"
    /\ trends.errs = <<"GBP/USD">> /\ Len(trends.out) = 6
    /\ \E r \in BagToSet(runs) :
         r.pc = "sendTrends" /\ r.logged = <<"GBP/USD">> /\ Len(r.out) = 3

\* the pairs whose call failed, in call order
FailedPairs(calls, succ) ==
    LET Missed(c) == ~InSeq(c.pair, succ)
        missed == SelectSeq(calls, Missed)
    IN  [k \in 1..Len(missed) |-> missed[k].pair]

Reported(msgs, pair) ==
    \E i \in 1..Len(msgs) : msgs[i].kind = "failed" /\ InSeq(pair, msgs[i].body)

\* C5 as stated: every pair that failed in a trends or digest batch appears
\* in a summary message sent after the batch.
C5_Original ==
    /\ (trends # Idle /\ trends.pc = "replyErrs") =>
         \A k \in 1..Len(FailedPairs(trends.calls, trends.out)) :
             Reported(trends.msgs, FailedPairs(trends.calls, trends.out)[k])
    /\ \A r \in BagToSet(runs) :
         r.pc = "sendTrends" =>
           \A k \in 1..Len(FailedPairs(r.calls, r.out)) :
               Reported(r.msgs, FailedPairs(r.calls, r.out)[k])

\* C5 amended: after a trends batch with failures the last message to the
\* chat lists the first five failed pairs in order, and no more; a trends
\* handler that had failures ends only after sending it.  A digest batch
\* sends no failure summary: its last message holds the successes alone.
C5_FirstFiveReported ==
    [][/\ (trends' # Idle /\ trends'.pc = "replyErrs") =>
            LET failed == FailedPairs(trends'.calls, trends'.out)
            IN  /\ failed # <<>>
                /\ Last(trends'.msgs) =
                     [to |-> trends'.chat, kind |-> "failed",
                      body |-> SubSeq(failed, 1, IF Len(failed) < 5 THEN Len(failed) ELSE 5)]
       /\ (trends # Idle /\ trends' = Idle /\ FailedPairs(trends.calls, trends.out) # <<>>)
            => trends.pc = "replyErrs"
       /\ \A r \in BagToSet(runs') :
            /\ \A i \in 1..Len(r.msgs) : r.msgs[i].kind # "failed"
            /\ r.pc = "sendTrends" =>
                 /\ Last(r.msgs).body = r.out
                 /\ \A k \in 1..Len(FailedPairs(r.calls, r.out)) :
                      ~InSeq(FailedPairs(r.calls, r.out)[k], Last(r.msgs).body)]_vars

\* six pairs failed in a trends batch: the message lists five of them
C5_Witness ==
    /\ trends # Idle /\ trends.pc = "replyErrs"
    /\ Len(FailedPairs(trends.calls, trends.out)) = 6
    /\ Len(Last(trends.msgs).body) = 5

Paced(calls) ==
    \A k \in 2..Len(calls) : calls[k].at - calls[k - 1].at >= 12

\* C6 as stated: in every batch at least 12 time units of pacing delay lie
\* between two successive calls to the quote provider, whether the earlier
\* call succeeded or failed.
C6_Original ==
    /\ trends # Idle => Paced(trends.calls)
    /\ \A r \in BagToSet(runs) : Paced(r.calls)

\* the closes of the last t bars' window of w bars, summed
WindowSum(c, t, w) == SumRange(c, t - w + 1, t)

\* fewer than 200 closes, or fewer than two rows with every indicator
TooShort(c) == Len(c) < 200 \/ Len(c) - 199 < 2

\* C7 as stated: a series with fewer than 200 closes, or with fewer than two
\* fully defined rows, ends in InsufficientData and never in an index fault.
C7_Original ==
    (result # None /\ series.kind = "series" /\ series.closes # <<>>
       /\ TooShort(series.closes))
      => result.kind = "InsufficientData"

\* C8: on the last two fully defined bars t-1 and t, the golden cross is
\* signalled iff SMA50[t-1] <= SMA200[t-1] and SMA50[t] > SMA200[t], the
\* death cross iff SMA50[t-1] >= SMA200[t-1] and SMA50[t] < SMA200[t], and
\* never both.
C8_CrossSignals ==
    result.kind = "ok" =>
      LET c == series.closes
          t == Len(c)
          \* SMA50 - SMA200 at bar i, times 200
          Diff(i) == 4 * WindowSum(c, i, 50) - WindowSum(c, i, 200)
      IN  /\ ("Golden cross (bullish)" \in result.signals)
                <=> (Diff(t - 1) <= 0 /\ Diff(t) > 0)
          /\ ("Death cross (bearish)" \in result.signals)
                <=> (Diff(t - 1) >= 0 /\ Diff(t) < 0)
          /\ Cardinality(result.signals) <= 1

\* the averages were equal on the bar before the last and the last close
\* lifted SMA50 above SMA200
C8_Witness ==
    /\ result.kind = "ok"
    /\ result.signals = {"Golden cross (bullish)"}
    /\ LET c == series.closes
       IN  4 * WindowSum(c, Len(c) - 1, 50) = WindowSum(c, Len(c) - 1, 200)

\* C9 as stated: two digest runs of the same chat are never in progress at
\* the same time.
C9_Original == \A c \in Chats : RunsOf(c) <= 1

\* C10: a schedule_digest or cancel_digest of chat A changes the jobs of no
\* other chat, every job carries the name of the chat that set it, and a
\* digest run sends only to the chat its job is named for.
C10_ChatIsolation ==
    [][/\ \A c \in Chats :
            Owned(jobs', c) # Owned(jobs, c) =>
              update'.chat = c /\ update'.cmd \in {"schedule_digest", "cancel_digest"}
       /\ \A j \in BagToSet(jobs') : j.name = <<"digest_", j.chat_id>>
       /\ \A r \in BagToSet(runs') :
            \A i \in 1..Len(r.msgs) : r.name = <<"digest_", r.msgs[i].to>>]_vars

\* chat 1 has just rescheduled while digests of both chats are in flight, and
\* chat 2 still holds its job of 08:30
C10_Witness ==
    /\ update.chat = 1 /\ update.cmd = "schedule_digest" /\ update.reply = "set"
    /\ Owned(jobs, 1) = SetToBag({[name |-> JobName(1), chat_id |-> 1, hh |-> 8, mm |-> 31]})
    /\ Owned(jobs, 2) = SetToBag({[name |-> JobName(2), chat_id |-> 2, hh |-> 8, mm |-> 30]})
    /\ \E r \in BagToSet(runs) : r.chat_id = 1 /\ r.msgs # <<>>
    /\ \E r \in BagToSet(runs) : r.chat_id = 2 /\ Len(r.msgs) = 2

====
